---------------------------- MODULE Spec2Model ----------------------------
(***************************************************************************)
(* Model of Predictor.predict (src/predict.py): the HTTrack website        *)
(* scraper.  One invocation validates the URL, recreates the fixed output  *)
(* directory, builds the httrack command line, runs httrack while parsing  *)
(* its output for progress, then counts the mirrored files, zips the       *)
(* project directory and returns the archive path.                         *)
(*                                                                         *)
(* Workers are the processes that serve predict calls.  The filesystem     *)
(* under /tmp/httrack_output is shared by all of them.                     *)
(***************************************************************************)
EXTENDS Integers, Sequences, FiniteSets, TLC

\* ------------------------------------------------------------------ bounds
\* Cap on the files-seen counter (lines that would raise it further are not
\* offered by the tool once the cap is reached).
MaxFiles == 2

\* ------------------------------------------------------------ text helpers
\* Strings the code inspects are sequences of one-character strings.
Http  == <<"h","t","t","p",":","/","/">>
Https == <<"h","t","t","p","s",":","/","/">>

\* str.startswith(prefix)
StartsWith(s, prefix) ==
    /\ Len(s) >= Len(prefix)
    /\ SubSeq(s, 1, Len(prefix)) = prefix

\* Faulty variant of UrlOk: only the scheme name is compared.
UrlOkNoSlashes(url) == StartsWith(url, <<"h","t","t","p">>)

\* url.startswith(('http://', 'https://'))
UrlOk(url) == StartsWith(url, Http) \/ StartsWith(url, Https)

\* str(n) for a non-negative integer: its decimal digits, most significant
\* first, as used by the f-strings f"-r{max_depth}" and f"-M{...}".
RECURSIVE Str(_)
Str(n) == IF n < 10 THEN <<n>> ELSE Append(Str(n \div 10), n % 10)

\* ------------------------------------------------------------ command line
\* A command-line token is a text followed by its trailing digits (empty
\* when it ends in none), so that the literal "-r9" and f"-r{9}" are the same
\* token; the URL token has an empty text and carries the URL's characters.
Tok(o) == [opt |-> o, arg |-> <<>>]
Lit(o, ds) == [opt |-> o, arg |-> ds]
TokN(o, n) == [opt |-> o, arg |-> Str(n)]

Requests(urls, depths, sizes, flags) ==
    [url : urls, max_depth : depths, max_size : sizes,
     external_links : flags, include_media : flags]

\* Faulty variant of DepthFlags: no flag at all for max_depth = 0.
DepthFlagsNoDefault(max_depth) ==
    IF max_depth > 0 THEN <<TokN("-r", max_depth)>> ELSE <<>>

\* cmd.extend for the depth limit
DepthFlags(max_depth) ==
    IF max_depth > 0 THEN <<TokN("-r", max_depth)>> ELSE <<Lit("-r", <<9>>)>>

\* cmd.extend for the size limit (MB converted to bytes)
SizeFlags(max_size) ==
    IF max_size > 0 THEN <<TokN("-M", max_size * 1048576)>> ELSE <<>>

ExternalFlags(external_links) ==
    IF ~external_links THEN <<Lit("-%e", <<0>>)>> ELSE <<>>

MediaFlags(include_media) ==
    IF ~include_media
    THEN <<Tok("-*gif"), Tok("-*jpg"), Tok("-*jpeg"), Tok("-*png"),
           Tok("-*svg"), Tok("-*webp"), Lit("-*mp", <<4>>), Tok("-*avi"),
           Tok("-*mov"), Lit("-*mp", <<3>>), Tok("-*wav"), Tok("-*ico")>>
    ELSE <<>>

BuildCmd(r) ==
    <<Tok("httrack"), [opt |-> "", arg |-> r.url], Tok("-O"),
      Tok("/tmp/httrack_output/website_scrape"), Tok("-v"), Tok("--display")>>
    \o DepthFlags(r.max_depth)
    \o SizeFlags(r.max_size)
    \o ExternalFlags(r.external_links)
    \o MediaFlags(r.include_media)
    \o <<Tok("--quiet"), Lit("-c", <<8>>), Tok("-%v")>>

\* --------------------------------------------------------- output parsing
\* An output line is a sequence of lexemes: a maximal run of digits (num),
\* a run of whitespace (ws), or any other text (word).
Num(n)  == [k |-> "num",  n |-> n, w |-> ""]
Word(w) == [k |-> "word", n |-> 0, w |-> w]
Ws      == [k |-> "ws",   n |-> 0, w |-> " "]

\* re.IGNORECASE on the words the tool prints
Lower(w) ==
    CASE w = "Saved" -> "saved"
      [] w = "Bytes" -> "bytes"
      [] w = "TRANSFERRED" -> "transferred"
      [] OTHER -> w

\* line.strip()
RECURSIVE LStrip(_)
LStrip(l) == IF l # <<>> /\ Head(l).k = "ws" THEN LStrip(Tail(l)) ELSE l
RECURSIVE RStrip(_)
RStrip(l) ==
    IF l # <<>> /\ l[Len(l)].k = "ws" THEN RStrip(SubSeq(l, 1, Len(l) - 1)) ELSE l
Strip(l) == RStrip(LStrip(l))

Min(S) == CHOOSE x \in S : \A y \in S : x <= y

\* re.search(r'(\d+)%', line): positions where a digit run is directly
\* followed by "%"; the match is the leftmost one.
PercentHits(l) ==
    {i \in 1..(Len(l) - 1) : l[i].k = "num" /\ l[i+1].k = "word" /\ l[i+1].w = "%"}
PercentMatch(l) == IF PercentHits(l) = {} THEN <<>> ELSE <<l[Min(PercentHits(l))].n>>

\* re.search(r'File generated|saved|written', line, re.IGNORECASE)
FileHit(l) ==
    \E i \in 1..Len(l) :
        l[i].k = "word" /\ Lower(l[i].w) \in {"file generated", "saved", "written"}

\* first position at or after i that is not whitespace
RECURSIVE SkipWs(_, _)
SkipWs(l, i) == IF i <= Len(l) /\ l[i].k = "ws" THEN SkipWs(l, i + 1) ELSE i

\* re.search(r'(\d+)\s*bytes?\s+transferred', line, re.IGNORECASE)
BytesAt(l, i) ==
    LET j == SkipWs(l, i + 1)
        m == SkipWs(l, j + 1)
    IN  /\ l[i].k = "num"
        /\ j <= Len(l) /\ l[j].k = "word" /\ Lower(l[j].w) \in {"bytes", "byte"}
        /\ m > j + 1
        /\ m <= Len(l) /\ l[m].k = "word" /\ Lower(l[m].w) = "transferred"
BytesHits(l) == {i \in 1..Len(l) : BytesAt(l, i)}
BytesMatch(l) == IF BytesHits(l) = {} THEN <<>> ELSE <<l[Min(BytesHits(l))].n>>


\* -------------------------------------------------------------- filesystem
\* The kind of a path httrack creates under the project directory.
Kind(n) == IF n = "img" THEN "dir" ELSE "file"

\* Faulty variant of FileCount: directories are counted too.
FileCountAll(es) == Cardinality(es)

\* sum(1 for f in all_files if f.is_file()) over project_dir.rglob("*")
FileCount(es) == Cardinality({e \in es : e.kind = "file"})

NoZip == [state |-> "absent", members |-> {}]

\* st_size of the archive: an opened, not yet written file is empty; a zip
\* holds an end-of-central-directory record and two headers per member.
ZipSize(z) == IF z.state = "complete" THEN 22 + 76 * Cardinality(z.members) ELSE 0

\* ------------------------------------------------------------------- state
Procs == {1, 2}

VARIABLES
    pc,               \* where each worker is in predict
    req,              \* the arguments of the current call
    cmd,              \* the command line built for httrack
    proc,             \* the subprocess: "none", "running", "exited"
    returncode,       \* process.returncode: <<>> (None) or <<code>>
    last_progress,    \* last percentage taken from the output
    files_downloaded, \* files-seen counter
    bytes_downloaded, \* bytes-seen counter
    completed,        \* the value last given to progress.update(completed=)
    warned,           \* the non-zero exit warning was printed
    file_count,       \* regular files counted under the project directory
    error,            \* the exception predict raised ("" when none)
    ret,              \* the archive behind the returned path, at return time
    outdir,           \* /tmp/httrack_output exists
    projdir,          \* /tmp/httrack_output/website_scrape exists
    entries,          \* the entries under the project directory
    zip,              \* /tmp/httrack_output/scraped_website.zip
    zipfd,            \* the worker's open archive is the file at the zip path
    archived,         \* history: make_archive was called in this invocation
    walked,           \* history: the project entries when the archive was written
    leftover          \* history: the output directory held something at call time

locals == <<pc, req, cmd, proc, returncode, last_progress, files_downloaded,
            bytes_downloaded, completed, warned, file_count, error, ret>>
fsys == <<outdir, projdir, entries, zip, zipfd>>
hist == <<archived, walked, leftover>>
vars == <<locals, fsys, hist>>

NoReq == [url |-> <<>>, max_depth |-> 0, max_size |-> 0,
          external_links |-> FALSE, include_media |-> FALSE]
NoRet == [size |-> 0, members |-> {}]

Init ==
    /\ pc = [p \in Procs |-> "idle"]
    /\ req = [p \in Procs |-> NoReq]
    /\ cmd = [p \in Procs |-> <<>>]
    /\ proc = [p \in Procs |-> "none"]
    /\ returncode = [p \in Procs |-> <<>>]
    /\ last_progress = [p \in Procs |-> 0]
    /\ files_downloaded = [p \in Procs |-> 0]
    /\ bytes_downloaded = [p \in Procs |-> 0]
    /\ completed = [p \in Procs |-> 0]
    /\ warned = [p \in Procs |-> FALSE]
    /\ file_count = [p \in Procs |-> 0]
    /\ error = [p \in Procs |-> ""]
    /\ ret = [p \in Procs |-> NoRet]
    /\ outdir = FALSE
    /\ projdir = FALSE
    /\ entries = {}
    /\ zip = NoZip
    /\ zipfd = [p \in Procs |-> FALSE]
    /\ archived = [p \in Procs |-> FALSE]
    /\ walked = [p \in Procs |-> {}]
    /\ leftover = [p \in Procs |-> FALSE]

\* An entry written by worker p belongs to p's current invocation; once p is
\* called again it is an entry of an earlier invocation.
Age(es, p) == {IF e.by = p THEN [e EXCEPT !.by = 0] ELSE e : e \in es}

\* raise inside the try block: the handler prints the error and a listing of
\* the output directory, then re-raises.
Raise(p, e) ==
    /\ pc' = [pc EXCEPT ![p] = "failed"]
    /\ error' = [error EXCEPT ![p] = e]


\* ----------------------------------------------------------------- actions
\* predict is called with a request from R: the locals are fresh and the URL
\* is validated before anything else happens.
Start(p, R) ==
    /\ pc[p] \in {"idle", "returned", "failed"}
    /\ \E r \in R :
        /\ req' = [req EXCEPT ![p] = r]
        /\ IF UrlOk(r.url)
           THEN /\ pc' = [pc EXCEPT ![p] = "rmtree"]
                /\ error' = [error EXCEPT ![p] = ""]
           ELSE Raise(p, "ValueError: URL must start with http:// or https://")
    /\ cmd' = [cmd EXCEPT ![p] = <<>>]
    /\ proc' = [proc EXCEPT ![p] = "none"]
    /\ returncode' = [returncode EXCEPT ![p] = <<>>]
    /\ last_progress' = [last_progress EXCEPT ![p] = 0]
    /\ files_downloaded' = [files_downloaded EXCEPT ![p] = 0]
    /\ bytes_downloaded' = [bytes_downloaded EXCEPT ![p] = 0]
    /\ completed' = [completed EXCEPT ![p] = 0]
    /\ warned' = [warned EXCEPT ![p] = FALSE]
    /\ file_count' = [file_count EXCEPT ![p] = 0]
    /\ ret' = [ret EXCEPT ![p] = NoRet]
    /\ zipfd' = [zipfd EXCEPT ![p] = FALSE]
    /\ archived' = [archived EXCEPT ![p] = FALSE]
    /\ walked' = [walked EXCEPT ![p] = {}]
    /\ leftover' = [leftover EXCEPT ![p] = projdir \/ zip.state # "absent"]
    /\ entries' = Age(entries, p)
    /\ zip' = [zip EXCEPT !.members = Age(@, p)]
    /\ UNCHANGED <<outdir, projdir>>

\* Faulty variant of Rmtree: the old output directory is kept.
RmtreeSkipped(p) ==
    /\ pc[p] = "rmtree"
    /\ pc' = [pc EXCEPT ![p] = "mkdir"]
    /\ UNCHANGED <<req, cmd, proc, returncode, last_progress, files_downloaded,
                   bytes_downloaded, completed, warned, file_count, error, ret,
                   fsys, hist>>

\* if output_dir.exists(): shutil.rmtree(output_dir)
Rmtree(p) ==
    /\ pc[p] = "rmtree"
    /\ pc' = [pc EXCEPT ![p] = "mkdir"]
    /\ IF outdir
       THEN /\ outdir' = FALSE
            /\ projdir' = FALSE
            /\ entries' = {}
            /\ zip' = NoZip
            /\ zipfd' = [q \in Procs |-> FALSE]
       ELSE UNCHANGED fsys
    /\ UNCHANGED <<req, cmd, proc, returncode, last_progress, files_downloaded,
                   bytes_downloaded, completed, warned, file_count, error, ret,
                   hist>>

\* output_dir.mkdir(exist_ok=True), then the command line is built
Mkdir(p) ==
    /\ pc[p] = "mkdir"
    /\ outdir' = TRUE
    /\ cmd' = [cmd EXCEPT ![p] = BuildCmd(req[p])]
    /\ pc' = [pc EXCEPT ![p] = "popen"]
    /\ UNCHANGED <<req, proc, returncode, last_progress, files_downloaded,
                   bytes_downloaded, completed, warned, file_count, error, ret,
                   projdir, entries, zip, zipfd, hist>>

\* progress.add_task(total=100); subprocess.Popen(cmd); counters set to 0
Popen(p) ==
    /\ pc[p] = "popen"
    /\ proc' = [proc EXCEPT ![p] = "running"]
    /\ completed' = [completed EXCEPT ![p] = 0]
    /\ files_downloaded' = [files_downloaded EXCEPT ![p] = 0]
    /\ bytes_downloaded' = [bytes_downloaded EXCEPT ![p] = 0]
    /\ last_progress' = [last_progress EXCEPT ![p] = 0]
    /\ pc' = [pc EXCEPT ![p] = "reading"]
    /\ UNCHANGED <<req, cmd, returncode, warned, file_count, error, ret,
                   fsys, hist>>

\* httrack, while it runs, creates its -O directory and writes into it
\* (n = "" creates the directory alone); N is what it finds to mirror.
ToolWrite(p, N) ==
    /\ proc[p] = "running"
    /\ \E n \in N \cup {""} :
        entries' = IF n = "" THEN entries
                   ELSE {e \in entries : e.name # n}
                        \cup {[name |-> n, kind |-> Kind(n), by |-> p]}
    /\ outdir' = TRUE
    /\ projdir' = TRUE
    /\ UNCHANGED <<locals, zip, zipfd, hist>>

\* one iteration of "for line in process.stdout" on a line from L
ReadLine(p, L) ==
    /\ pc[p] = "reading"
    /\ proc[p] = "running"
    /\ \E raw \in L :
        LET line == Strip(raw)
            pm == PercentMatch(line)
            bm == BytesMatch(line)
        IN  /\ FileHit(line) => files_downloaded[p] < MaxFiles
            /\ IF line # <<>> /\ pm # <<>> /\ pm[1] > last_progress[p]
               THEN /\ last_progress' = [last_progress EXCEPT ![p] = pm[1]]
                    /\ completed' = [completed EXCEPT ![p] = pm[1]]
               ELSE UNCHANGED <<last_progress, completed>>
            /\ files_downloaded' =
                 IF line # <<>> /\ FileHit(line)
                 THEN [files_downloaded EXCEPT ![p] = @ + 1]
                 ELSE files_downloaded
            /\ bytes_downloaded' =
                 IF line # <<>> /\ bm # <<>>
                 THEN [bytes_downloaded EXCEPT ![p] = bm[1]]
                 ELSE bytes_downloaded
    /\ UNCHANGED <<pc, req, cmd, proc, returncode, warned, file_count, error,
                   ret, fsys, hist>>

\* Faulty variant of Wait: a non-zero exit code raises.
WaitFatal(p, C) ==
    /\ pc[p] = "reading"
    /\ proc[p] = "running"
    /\ \E rc \in C :
        /\ returncode' = [returncode EXCEPT ![p] = <<rc>>]
        /\ warned' = [warned EXCEPT ![p] = (rc # 0)]
        /\ IF rc # 0
           THEN Raise(p, "RuntimeError: HTTrack failed")
           ELSE pc' = [pc EXCEPT ![p] = "checkdir"] /\ UNCHANGED error
    /\ proc' = [proc EXCEPT ![p] = "exited"]
    /\ completed' = [completed EXCEPT ![p] = 100]
    /\ UNCHANGED <<req, cmd, last_progress, files_downloaded, bytes_downloaded,
                   file_count, ret, fsys, hist>>

\* end of output: process.wait() gives an exit code from C, the warning is
\* printed on a non-zero one, and progress.update(completed=100)
Wait(p, C) ==
    /\ pc[p] = "reading"
    /\ proc[p] = "running"
    /\ \E rc \in C :
        /\ returncode' = [returncode EXCEPT ![p] = <<rc>>]
        /\ warned' = [warned EXCEPT ![p] = (rc # 0)]
    /\ proc' = [proc EXCEPT ![p] = "exited"]
    /\ completed' = [completed EXCEPT ![p] = 100]
    /\ pc' = [pc EXCEPT ![p] = "checkdir"]
    /\ UNCHANGED <<req, cmd, last_progress, files_downloaded, bytes_downloaded,
                   file_count, error, ret, fsys, hist>>

\* Faulty variant of CheckDir: the directory is assumed to exist.
CheckDirAssumed(p) ==
    /\ pc[p] = "checkdir"
    /\ pc' = [pc EXCEPT ![p] = "count"]
    /\ UNCHANGED <<req, cmd, proc, returncode, last_progress, files_downloaded,
                   bytes_downloaded, completed, warned, file_count, error, ret,
                   fsys, hist>>

\* if not project_dir.exists(): raise RuntimeError
CheckDir(p) ==
    /\ pc[p] = "checkdir"
    /\ IF projdir
       THEN pc' = [pc EXCEPT ![p] = "count"] /\ UNCHANGED error
       ELSE Raise(p, "RuntimeError: HTTrack did not create expected directory")
    /\ UNCHANGED <<req, cmd, proc, returncode, last_progress, files_downloaded,
                   bytes_downloaded, completed, warned, file_count, ret,
                   fsys, hist>>

\* the walk of the project directory: file_count, total_size, and the
\* listing of subdirectories (iterdir raises when the directory is gone)
CountFiles(p) ==
    /\ pc[p] = "count"
    /\ IF projdir
       THEN /\ file_count' = [file_count EXCEPT ![p] = FileCount(entries)]
            /\ pc' = [pc EXCEPT ![p] = "archive"]
            /\ UNCHANGED error
       ELSE /\ Raise(p, "FileNotFoundError")
            /\ UNCHANGED file_count
    /\ UNCHANGED <<req, cmd, proc, returncode, last_progress, files_downloaded,
                   bytes_downloaded, completed, warned, ret, fsys, hist>>

\* shutil.make_archive, first half: the output directory is created when
\* missing and the zip file is opened for writing, which truncates it.  With
\* the project directory gone, make_archive raises or archives nothing,
\* depending on the Python version.
ArchiveOpen(p) ==
    /\ pc[p] = "archive"
    /\ archived' = [archived EXCEPT ![p] = TRUE]
    /\ \E raises \in (IF projdir THEN {FALSE} ELSE BOOLEAN) :
        IF raises
        THEN /\ Raise(p, "FileNotFoundError")
             /\ UNCHANGED fsys
        ELSE /\ pc' = [pc EXCEPT ![p] = "zipwrite"]
             /\ outdir' = TRUE
             /\ zip' = [state |-> "empty", members |-> {}]
             /\ zipfd' = [zipfd EXCEPT ![p] = TRUE]
             /\ UNCHANGED <<error, projdir, entries>>
    /\ UNCHANGED <<req, cmd, proc, returncode, last_progress, files_downloaded,
                   bytes_downloaded, completed, warned, file_count, ret,
                   walked, leftover>>

\* shutil.make_archive, second half: the project directory is walked and
\* written to the open file, which is then closed.  A file that was removed
\* meanwhile stays removed: the data goes to the unlinked file.
ArchiveWrite(p) ==
    /\ pc[p] = "zipwrite"
    /\ walked' = [walked EXCEPT ![p] = IF projdir THEN entries ELSE {}]
    /\ zip' = IF zipfd[p]
              THEN [state |-> "complete", members |-> walked'[p]]
              ELSE zip
    /\ zipfd' = [zipfd EXCEPT ![p] = FALSE]
    /\ pc' = [pc EXCEPT ![p] = "verify"]
    /\ UNCHANGED <<req, cmd, proc, returncode, last_progress, files_downloaded,
                   bytes_downloaded, completed, warned, file_count, error, ret,
                   outdir, projdir, entries, archived, leftover>>

\* if not zip_path.exists(): raise RuntimeError
Verify(p) ==
    /\ pc[p] = "verify"
    /\ IF zip.state # "absent"
       THEN pc' = [pc EXCEPT ![p] = "stat"] /\ UNCHANGED error
       ELSE Raise(p, "RuntimeError: ZIP file was not created")
    /\ UNCHANGED <<req, cmd, proc, returncode, last_progress, files_downloaded,
                   bytes_downloaded, completed, warned, file_count, ret,
                   fsys, hist>>

\* zip_path.stat() for the summary, then return CogPath(zip_path)
Return(p) ==
    /\ pc[p] = "stat"
    /\ IF zip.state # "absent"
       THEN /\ pc' = [pc EXCEPT ![p] = "returned"]
            /\ ret' = [ret EXCEPT ![p] =
                         [size |-> ZipSize(zip), members |-> zip.members]]
            /\ UNCHANGED error
       ELSE /\ Raise(p, "FileNotFoundError")
            /\ UNCHANGED ret
    /\ UNCHANGED <<req, cmd, proc, returncode, last_progress, files_downloaded,
                   bytes_downloaded, completed, warned, file_count,
                   fsys, hist>>

\* ---------------------------------------------------------- specifications
\* E is what the outside offers: the requests made, the paths the site has,
\* the lines httrack prints and the exit codes it ends with.
Step(p, E) ==
    \/ Start(p, E.requests)
    \/ Rmtree(p)
    \/ Mkdir(p)
    \/ Popen(p)
    \/ ToolWrite(p, E.names)
    \/ ReadLine(p, E.lines)
    \/ Wait(p, E.codes)
    \/ CheckDir(p)
    \/ CountFiles(p)
    \/ ArchiveOpen(p)
    \/ ArchiveWrite(p)
    \/ Verify(p)
    \/ Return(p)

\* The requests, site paths, output lines and exit codes offered to one
\* worker serving calls one after the other.
Names == {"index.html", "logo.png", "img"}
ExitCodes == {0, 1}
Urls ==
    { Https \o <<"a">>, Http \o <<"a">>, <<"f","t","p",":","/","/","a">>,
      <<"h","t","t","p",":","/","a">>, <<"a">>, <<>> }
AllRequests ==
    Requests({Https \o <<"a">>}, {0, 2, 10}, {0, 1000}, {FALSE})
    \cup Requests(Urls, {1}, {1}, {TRUE})
    \cup Requests({Http \o <<"a">>}, {1}, {0}, BOOLEAN)
AllLines ==
    { <<>>,
      <<Ws>>,
      <<Num(50), Word("%")>>,
      <<Word("x"), Ws, Num(150), Word("%"), Ws>>,
      <<Num(10), Word("%"), Ws, Num(90), Word("%")>>,
      <<Num(50), Ws, Word("%")>>,
      <<Word("Saved"), Ws, Word("x")>>,
      <<Num(500), Ws, Word("bytes"), Ws, Word("transferred")>>,
      <<Num(100), Word("Bytes"), Ws, Ws, Word("TRANSFERRED")>>,
      <<Num(7), Ws, Word("bytes"), Word("transferred")>>,
      <<Word("File generated"), Ws, Num(50), Word("%"), Ws, Num(100), Ws,
        Word("byte"), Ws, Word("transferred")>> }

Next ==
    Step(1, [requests |-> AllRequests, names |-> Names,
             lines |-> AllLines, codes |-> ExitCodes])
Spec == Init /\ [][Next]_vars

\* Two workers serving calls at the same time; what they are asked and what
\* the tool prints is reduced to one case each, since only their use of the
\* shared directory matters here.
ConcRequests == Requests({Https \o <<"a">>}, {2}, {100}, {FALSE})
ConcLines == { <<Num(50), Word("%")>> }

NextConc ==
    \E p \in Procs :
        Step(p, [requests |-> ConcRequests, names |-> {"index.html"},
                 lines |-> ConcLines, codes |-> {0}])
SpecConc == Init /\ [][NextConc]_vars


\* ------------------------------------------------------------------ claims
\* The URL declares the http or https scheme, spelled out on its characters.
HasScheme(url) ==
    \/ Len(url) >= 7 /\ [i \in 1..7 |-> url[i]] = <<"h","t","t","p",":","/","/">>
    \/ Len(url) >= 8 /\ [i \in 1..8 |-> url[i]] = <<"h","t","t","p","s",":","/","/">>

\* The number a digit sequence denotes.
RECURSIVE Val(_)
Val(ds) == IF ds = <<>> THEN 0 ELSE 10 * Val(SubSeq(ds, 1, Len(ds) - 1)) + ds[Len(ds)]

\* C1: a call whose url does not start with "http://" or "https://" fails
\* with ValueError, and no subprocess is spawned and no command built in it.
C1_InvalidUrlRejected ==
    \A p \in Procs :
        (pc[p] # "idle" /\ ~HasScheme(req[p].url)) =>
            /\ pc[p] = "failed"
            /\ error[p] = "ValueError: URL must start with http:// or https://"
            /\ proc[p] = "none"
            /\ cmd[p] = <<>>

\* A call with the near-miss URL "http:/a" has been rejected.
C1_Witness ==
    /\ pc[1] = "failed"
    /\ req[1].url = <<"h","t","t","p",":","/","a">>
    /\ proc[1] = "none"

\* C2: while the output is read and when the subprocess has exited, the
\* value given to the progress display never decreases.
C2_PercentNeverDecreases ==
    [][\A p \in Procs : pc[p] = "reading" => completed'[p] >= completed[p]]_vars

\* C3: when the project directory does not exist after the subprocess has
\* exited, the call gets no further than the check, fails there with the
\* missing-directory RuntimeError, and make_archive is never called.
C3_MissingOutput ==
    \A p \in Procs :
        (proc[p] = "exited" /\ ~projdir) =>
            /\ pc[p] \in {"checkdir", "failed"}
            /\ ~archived[p]
            /\ pc[p] = "failed" =>
                 error[p] = "RuntimeError: HTTrack did not create expected directory"

\* The tool ran, left no project directory, and the call failed.
C3_Witness ==
    /\ pc[1] = "failed"
    /\ proc[1] = "exited"
    /\ ~projdir
    /\ error[1] = "RuntimeError: HTTrack did not create expected directory"

\* C4: a returned archive path names a file that exists with non-zero size.
C4_ReturnedArchiveNonEmpty ==
    \A p \in Procs : pc[p] = "returned" => ret[p].size > 0

C6_DepthAndSizeFlags ==
    \A p \in Procs :
        cmd[p] # <<>> =>
            LET c == cmd[p]
                r == req[p]
                depth == {i \in 1..Len(c) : c[i].opt = "-r"}
                size == {i \in 1..Len(c) : c[i].opt = "-M"}
            IN  /\ Cardinality(depth) = 1
                /\ \A i \in depth :
                     Val(c[i].arg) = IF r.max_depth = 0 THEN 9 ELSE r.max_depth
                /\ (size # {}) = (r.max_size > 0)
                /\ Cardinality(size) <= 1
                /\ \A i \in size : Val(c[i].arg) = r.max_size * 1048576

\* A command was built for max_depth = 0 and max_size = 0.
C6_Witness ==
    /\ cmd[1] # <<>>
    /\ req[1].max_depth = 0
    /\ req[1].max_size = 0

\* C7: a non-zero exit code is only warned about: whatever the exit code,
\* the call returns an archive exactly when the project directory exists,
\* and otherwise fails with the missing-directory error.
C7_NonZeroExitTolerated ==
    \A p \in Procs :
        proc[p] = "exited" =>
            /\ warned[p] = (returncode[p] # <<0>>)
            /\ pc[p] = "returned" => projdir
            /\ pc[p] = "failed" =>
                 /\ ~projdir
                 /\ error[p] = "RuntimeError: HTTrack did not create expected directory"

\* A call returned an archive after the tool exited with code 1.
C7_Witness ==
    /\ pc[1] = "returned"
    /\ returncode[1] = <<1>>
    /\ warned[1]

\* C8: from one consumed line to the next neither the files-seen nor the
\* bytes-seen counter decreases.
C8_CountersNeverDecrease ==
    [][\A p \in Procs :
         (pc[p] = "reading" /\ pc'[p] = "reading") =>
             /\ files_downloaded'[p] >= files_downloaded[p]
             /\ bytes_downloaded'[p] >= bytes_downloaded[p]]_vars

\* C9: the start-up removal of one call, made while another call is between
\* launching its subprocess and returning, leaves nothing of the project
\* directory and the archive the other call is working on.
C9_RemovalHitsOther ==
    [][\A p \in Procs : \A q \in Procs \ {p} :
         ( /\ pc[p] = "rmtree" /\ pc'[p] = "mkdir"
           /\ pc[q] \in {"reading", "checkdir", "count", "archive",
                         "zipwrite", "verify", "stat"}
           /\ projdir \/ zip.state # "absent" )
         => (~projdir' /\ entries' = {} /\ zip'.state = "absent")]_vars

\* One call lost its project directory or archive after having seen it, and
\* failed, while the other call had started.
C9_Witness ==
    \E p \in Procs : \E q \in Procs \ {p} :
        /\ pc[q] = "failed"
        /\ error[q] = "FileNotFoundError"
        /\ pc[p] \notin {"idle", "rmtree"}

\* C10: with calls made one after the other, the output directory exists
\* and is empty when the subprocess is launched, and a returned archive
\* holds only entries written during the call that returns it.
C10_CleanAtLaunch ==
    \A p \in Procs :
        /\ pc[p] = "popen" =>
             (outdir /\ ~projdir /\ entries = {} /\ zip.state = "absent")
        /\ pc[p] = "returned" => \A m \in ret[p].members : m.by = p

\* A call that found an earlier call's output returned a non-empty archive.
C10_Witness ==
    /\ pc[1] = "returned"
    /\ leftover[1]
    /\ ret[1].members # {}

=============================================================================
